---- MODULE Spec2Model ----
(***************************************************************************)
(* A model of badwords/check.py: the ProfanityFilter class.                *)
(*                                                                         *)
(* Strings are sequences of one-character strings.  An optional value      *)
(* (None or a value) is a sequence of length 0 or 1.  Floats are exact     *)
(* rationals <<num, den>> with den > 0: with strings this short the        *)
(* correctly rounded quotient 2.0 * M / T compares with a threshold        *)
(* exactly as the rationals do.                                            *)
(***************************************************************************)
EXTENDS Integers, Sequences, FiniteSets, TLC

\* ------------------------------------------------------------------ bounds

\* Longest text given to filter_text.
MaxLen == 3

\* Longest explicit language list given to init.
MaxLangs == 2

\* The corpus stops growing at this many entries.
MaxCorpus == 4

\* ----------------------------------------------------------------- strings

Letters == {"a", "b", "A"}

Whitespace == {" "}

Alphabet == Letters \cup Whitespace

Str(n) == UNION {[1..k -> Alphabet] : k \in 0..n}

None == <<>>

Some(x) == <<x>>

\* str.lower() on one character.
LowerChar(c) == IF c = "A" THEN "a" ELSE c

\* str.lower()
Lower(s) == [i \in 1..Len(s) |-> LowerChar(s[i])]

\* str.isalpha() on one character.
IsAlphaChar(c) == c \in {"a", "b", "c", "d", "e", "f", "g", "h", "i", "j", "k", "l", "m",
                         "n", "o", "p", "q", "r", "s", "t", "u", "v", "w", "x", "y", "z", "A"}

\* str.isalpha(): non-empty and every character alphabetic.
IsAlpha(s) == Len(s) > 0 /\ \A i \in 1..Len(s) : IsAlphaChar(s[i])

RECURSIVE LStrip(_)
\* str.lstrip()
LStrip(s) == IF s # <<>> /\ Head(s) \in Whitespace THEN LStrip(Tail(s)) ELSE s

RECURSIVE RStrip(_)
\* str.rstrip()
RStrip(s) ==
  IF s # <<>> /\ s[Len(s)] \in Whitespace THEN RStrip(SubSeq(s, 1, Len(s) - 1)) ELSE s

\* str.strip()
Strip(s) == RStrip(LStrip(s))

RECURSIVE SplitFrom(_, _)
\* The tokens of s, cur being the token under construction.
SplitFrom(s, cur) ==
  IF s = <<>> THEN (IF cur = <<>> THEN <<>> ELSE <<cur>>)
  ELSE IF Head(s) \in Whitespace
       THEN (IF cur = <<>> THEN <<>> ELSE <<cur>>) \o SplitFrom(Tail(s), <<>>)
       ELSE SplitFrom(Tail(s), Append(cur, Head(s)))

\* str.split() without arguments: the maximal whitespace-free runs, in order.
Split(s) == SplitFrom(s, <<>>)

\* a * n for a string a.
Repeat(a, n) == [i \in 1..(n * Len(a)) |-> a[((i - 1) % Len(a)) + 1]]

\* s.startswith(old)
StartsWith(s, old) == Len(old) <= Len(s) /\ SubSeq(s, 1, Len(old)) = old

RECURSIVE Replace(_, _, _)
\* str.replace(old, new) for a non-empty old: the leftmost non-overlapping
\* occurrences, left to right.
Replace(s, old, new) ==
  IF s = <<>> THEN <<>>
  ELSE IF StartsWith(s, old)
       THEN new \o Replace(SubSeq(s, Len(old) + 1, Len(s)), old, new)
       ELSE <<Head(s)>> \o Replace(Tail(s), old, new)

\* ------------------------------------------------- SequenceMatcher.ratio()

\* Whether a[i..i+k-1] = b[j..j+k-1] is a block of the windows a[alo..ahi], b[blo..bhi].
IsBlock(a, b, alo, ahi, blo, bhi, i, j, k) ==
  /\ alo <= i /\ i + k - 1 <= ahi
  /\ blo <= j /\ j + k - 1 <= bhi
  /\ \A d \in 0..(k - 1) : a[i + d] = b[j + d]

\* difflib's find_longest_match (no junk): the longest block, of those the one
\* starting earliest in a, of those the one starting earliest in b; <<alo, blo, 0>>
\* when nothing matches.
FindLongestMatch(a, b, alo, ahi, blo, bhi) ==
  LET blocks == {t \in (alo..ahi) \X (blo..bhi) \X (1..Len(a)) :
                   IsBlock(a, b, alo, ahi, blo, bhi, t[1], t[2], t[3])}
  IN IF blocks = {} THEN <<alo, blo, 0>>
     ELSE CHOOSE t \in blocks : \A u \in blocks :
            \/ t[3] > u[3]
            \/ t[3] = u[3] /\ t[1] < u[1]
            \/ t[3] = u[3] /\ t[1] = u[1] /\ t[2] <= u[2]

RECURSIVE MatchCount(_, _, _, _, _, _)
\* The total size of difflib's get_matching_blocks over the two windows: the
\* longest block, then the same to its left and to its right.
MatchCount(a, b, alo, ahi, blo, bhi) ==
  IF alo > ahi \/ blo > bhi THEN 0
  ELSE LET m == FindLongestMatch(a, b, alo, ahi, blo, bhi)
       IN IF m[3] = 0 THEN 0
          ELSE m[3] + MatchCount(a, b, alo, m[1] - 1, blo, m[2] - 1)
                    + MatchCount(a, b, m[1] + m[3], ahi, m[2] + m[3], bhi)

\* SequenceMatcher(None, a, b).ratio() as the rational <<num, den>>:
\* 2.0 * matches / length, and 1.0 when both strings are empty.
Ratio(a, b) ==
  IF Len(a) + Len(b) = 0 THEN <<1, 1>>
  ELSE <<2 * MatchCount(a, b, 1, Len(a), 1, Len(b)), Len(a) + Len(b)>>

\* x < y for rationals with positive denominators.
RatLess(x, y) == x[1] * y[2] < y[1] * x[2]

\* --------------------------------------------------- the text normaliser
\* TextProcessor (badwords/text_processor.py) is not among the source files;
\* it is modelled from the specification's section 4.1.

\* The keyword arguments of TextProcessor(...), check.py's defaults all True.
ConfigOf(n, a, t, h) ==
  [normalize_text |-> n, aggressive_normalize |-> a, transliterate |-> t,
   replace_homoglyphs |-> h]

DefaultConfig == ConfigOf(TRUE, TRUE, TRUE, TRUE)

BasicConfig == ConfigOf(TRUE, FALSE, FALSE, FALSE)

OffConfig == ConfigOf(FALSE, FALSE, FALSE, FALSE)

Configs == {DefaultConfig, BasicConfig, OffConfig}

\* Basic normalisation: case folding and whitespace trimming.
normalize_text(s) == Strip(Lower(s))

RECURSIVE Collapse(_)
\* Repeated-character collapsing: a run of one character becomes one character.
Collapse(s) ==
  IF Len(s) <= 1 THEN s
  ELSE IF s[1] = s[2] THEN Collapse(Tail(s))
       ELSE <<Head(s)>> \o Collapse(Tail(s))

RECURSIVE MergeSingles(_)
\* Spacing evasion ("b a d"): a run of one-character tokens becomes one token.
MergeSingles(toks) ==
  IF Len(toks) <= 1 THEN toks
  ELSE LET rest == MergeSingles(Tail(toks))
       IN IF Len(toks[1]) = 1 /\ Len(toks[2]) = 1
          THEN <<toks[1] \o Head(rest)>> \o Tail(rest)
          ELSE <<toks[1]>> \o rest

RECURSIVE Join(_)
\* " ".join(toks)
Join(toks) ==
  IF toks = <<>> THEN <<>>
  ELSE IF Len(toks) = 1 THEN toks[1]
       ELSE toks[1] \o <<" ">> \o Join(Tail(toks))

\* Aggressive normalisation over the model's alphabet (no punctuation, no
\* diacritics): repeated characters collapse and spaced-out letters are joined.
aggressive_normalize(s) ==
  LET toks == Split(s)
      once == [i \in 1..Len(toks) |-> Collapse(toks[i])]
      merged == MergeSingles(once)
  IN Join([i \in 1..Len(merged) |-> Collapse(merged[i])])

\* Transliteration of one character: the model's alphabet is Latin already.
TransliterateChar(c) == c

transliterate(s) == [i \in 1..Len(s) |-> TransliterateChar(s[i])]

\* Homoglyph replacement of one character: the model's alphabet holds no
\* look-alike of another of its characters.
HomoglyphChar(c) == c

replace_homoglyphs(s) == [i \in 1..Len(s) |-> HomoglyphChar(s[i])]

\* TextProcessor.process_text: the enabled capabilities in their fixed order.
process_text(cfg, s) ==
  LET s1 == IF cfg.normalize_text THEN normalize_text(s) ELSE s
      s2 == IF cfg.aggressive_normalize THEN aggressive_normalize(s1) ELSE s1
      s3 == IF cfg.transliterate THEN transliterate(s2) ELSE s2
  IN IF cfg.replace_homoglyphs THEN replace_homoglyphs(s3) ELSE s3

\* ------------------------------------------------ the resource directory
\* The environment of init: the entries of resource_dir and what opening and
\* reading each one does.

EN == <<"e", "n">>

RU == <<"r", "u">>

DE == <<"d", "e">>

FR == <<"f", "r">>

E1 == <<"e", "1">>

DM == <<"d", "m">>

\* A code that no entry of the directory yields.
ZZ == <<"z", "z">>

BdwExt == <<".", "b", "d", "w">>

TxtExt == <<".", "t", "x", "t">>

\* resource_dir.iterdir(), each path as str(path).
ResourceDir ==
  <<EN \o BdwExt, DE \o BdwExt, RU \o BdwExt, E1 \o BdwExt, FR \o BdwExt, DM \o TxtExt>>

\* What file_path.open(encoding="utf-8") and f.read() do with an entry:
\* "ok", "unreadable" (open raises OSError) or "misencoded" (read raises
\* UnicodeDecodeError).
FileState(path) ==
  IF path = DE \o BdwExt THEN "unreadable"
  ELSE IF path = FR \o BdwExt THEN "misencoded"
  ELSE "ok"

\* The text of a readable entry.
FileText(path) ==
  IF path = EN \o BdwExt THEN <<"A", "b", "\n", "a", " ", "b", "\n">>
  ELSE IF path = RU \o BdwExt THEN <<"b", "a", "\n", "b", "\n">>
  ELSE <<>>

\* file_path.exists()
Exists(path) == \E i \in 1..Len(ResourceDir) : ResourceDir[i] = path

RECURSIVE SplitLinesFrom(_, _, _)
\* The lines of s, cur being the line under construction and open whether a
\* line is under construction.
SplitLinesFrom(s, cur, open) ==
  IF s = <<>> THEN (IF open THEN <<cur>> ELSE <<>>)
  ELSE IF Head(s) = "\n" THEN <<cur>> \o SplitLinesFrom(Tail(s), <<>>, FALSE)
       ELSE SplitLinesFrom(Tail(s), Append(cur, Head(s)), TRUE)

\* str.splitlines(): the lines without their line breaks; a final line break
\* opens no further line.
SplitLines(s) == SplitLinesFrom(s, <<>>, FALSE)

\* --------------------------------------------------------------- the state

VARIABLES
  status,          \* "new" before init, "ready" after it, "failed" when it raised
  text_processor,  \* self.text_processor: None, or Some(configuration)
  language_files,  \* self.language_files: None, or Some(list of codes)
  bad_words,       \* self.bad_words: None while unassigned, or Some(set of words)
  origin,          \* history: <<word, configuration>> for every insertion into bad_words
  call             \* the call that has just returned, with its arguments and result

vars == <<status, text_processor, language_files, bad_words, origin, call>>

NoRet == [kind |-> "none", b |-> FALSE, s |-> <<>>, l |-> <<>>]

RetBool(x) == [kind |-> "bool", b |-> x, s |-> <<>>, l |-> <<>>]

RetStr(x) == [kind |-> "str", b |-> FALSE, s |-> x, l |-> <<>>]

RetList(x) == [kind |-> "list", b |-> FALSE, s |-> <<>>, l |-> x]

\* A method that returns None.
RetNone == [kind |-> "None", b |-> FALSE, s |-> <<>>, l |-> <<>>]

\* raise NotSupportedLanguage
RaiseNotSupportedLanguage == [kind |-> "NotSupportedLanguage", b |-> FALSE, s |-> <<>>, l |-> <<>>]

NoCall ==
  [op |-> "none", languages |-> None, words |-> <<>>, text |-> <<>>, thr |-> None,
   rc |-> None, ret |-> NoRet]

Init ==
  /\ status = "new"
  /\ text_processor = None
  /\ language_files = None
  /\ bad_words = None
  /\ origin = {}
  /\ call = NoCall

\* ------------------------------------------------------------------- init

\* str(path)[-6:-4]
PathCode(path) == SubSeq(path, Len(path) - 5, Len(path) - 4)

\* ProfanityFilter.initialize_language_files
initialize_language_files == [i \in 1..Len(ResourceDir) |-> PathCode(ResourceDir[i])]

\* x in list
InList(x, list) == \E i \in 1..Len(list) : list[i] = x

\* One pass of the loop body of initialize_bad_words for lang: None when the
\* language is skipped (continue, or an exception caught), else Some(the
\* processed words of its file).
LoadLanguage(cfg, lang) ==
  LET code == Strip(Lower(lang))
      file_path == code \o BdwExt
  IN IF ~IsAlpha(code) THEN None
     ELSE IF ~Exists(file_path) THEN None
     ELSE IF FileState(file_path) # "ok" THEN None
     ELSE LET words == SplitLines(FileText(file_path))
          IN Some({process_text(cfg, words[i]) : i \in 1..Len(words)})

RECURSIVE LoadFromAbort(_, _, _)
\* Variant of LoadFrom: the first language that fails to load ends the loop.
LoadFromAbort(cfg, langs, acc) ==
  IF langs = <<>> THEN acc
  ELSE LET got == LoadLanguage(cfg, Head(langs))
       IN IF got = None THEN acc ELSE LoadFromAbort(cfg, Tail(langs), acc \cup got[1])

RECURSIVE LoadFrom(_, _, _)
\* The loop of initialize_bad_words over the languages left, acc being bad_words.
LoadFrom(cfg, langs, acc) ==
  IF langs = <<>> THEN acc
  ELSE LET got == LoadLanguage(cfg, Head(langs))
       IN LoadFrom(cfg, Tail(langs), IF got = None THEN acc ELSE acc \cup got[1])

\* ProfanityFilter.initialize_bad_words, with self.text_processor = cfg and
\* self.language_files = langs.
initialize_bad_words(cfg, langs) == LoadFrom(cfg, langs, {})

\* "if languages": a list that is given and not empty.
Truthy(languages) == languages # None /\ languages[1] # <<>>

\* Variant of Supported: any() in place of all().
SupportedAny(languages, discovered) ==
  \E i \in 1..Len(languages) : InList(languages[i], discovered)

\* all(i in self.language_files for i in languages)
Supported(languages, discovered) ==
  \A i \in 1..Len(languages) : InList(languages[i], discovered)

\* ProfanityFilter.init
init(languages, cfg) ==
  /\ status = "new"
  /\ text_processor' = Some(cfg)
  /\ LET discovered == initialize_language_files
     IN IF Truthy(languages) /\ ~Supported(languages[1], discovered)
        THEN /\ status' = "failed"
             /\ language_files' = Some(discovered)
             /\ UNCHANGED <<bad_words, origin>>
             /\ call' = [NoCall EXCEPT !.op = "init", !.languages = languages,
                                       !.ret = RaiseNotSupportedLanguage]
        ELSE LET langs == IF Truthy(languages) THEN languages[1] ELSE discovered
                 loaded == initialize_bad_words(cfg, langs)
             IN /\ status' = "ready"
                /\ language_files' = Some(langs)
                /\ bad_words' = Some(loaded)
                /\ origin' = {<<w, cfg>> : w \in loaded}
                /\ call' = [NoCall EXCEPT !.op = "init", !.languages = languages,
                                          !.ret = RetNone]

\* ------------------------------------------------------------- add_words

\* self.bad_words
Corpus == bad_words[1]

\* The configuration self.text_processor was built with.
Config == text_processor[1]

\* Variant of add_words: the processed words replace the corpus.
add_words_replace(words) ==
  /\ status = "ready"
  /\ call = NoCall
  /\ Cardinality(Corpus) < MaxCorpus
  /\ LET added == {process_text(Config, words[i]) : i \in 1..Len(words)}
     IN /\ bad_words' = Some(added)
        /\ origin' = {<<w, Config>> : w \in added}
  /\ call' = [NoCall EXCEPT !.op = "add_words", !.words = words, !.ret = RetNone]
  /\ UNCHANGED <<status, text_processor, language_files>>

\* Variant of add_words: the words go through a TextProcessor() of its own,
\* with every capability enabled.
add_words_default(words) ==
  /\ status = "ready"
  /\ call = NoCall
  /\ Cardinality(Corpus) < MaxCorpus
  /\ LET added == {process_text(DefaultConfig, words[i]) : i \in 1..Len(words)}
     IN /\ bad_words' = Some(Corpus \cup added)
        /\ origin' = origin \cup {<<w, DefaultConfig>> : w \in added}
  /\ call' = [NoCall EXCEPT !.op = "add_words", !.words = words, !.ret = RetNone]
  /\ UNCHANGED <<status, text_processor, language_files>>

\* ProfanityFilter.add_words
add_words(words) ==
  /\ status = "ready"
  /\ call = NoCall
  /\ Cardinality(Corpus) < MaxCorpus
  /\ LET processed_words == [i \in 1..Len(words) |-> process_text(Config, words[i])]
         added == {processed_words[i] : i \in 1..Len(words)}
     IN /\ bad_words' = Some(Corpus \cup added)
        /\ origin' = origin \cup {<<w, Config>> : w \in added}
  /\ call' = [NoCall EXCEPT !.op = "add_words", !.words = words, !.ret = RetNone]
  /\ UNCHANGED <<status, text_processor, language_files>>

\* ----------------------------------------------------------- filter_text

One == <<1, 1>>

Zero == <<0, 1>>

\* "if not match_threshold: match_threshold = 1": None and 0 are falsy.
EffectiveThreshold(match_threshold) ==
  IF match_threshold = None \/ match_threshold[1][1] = 0 THEN One ELSE match_threshold[1]

\* Variant of FuzzyEnabled: match_threshold < 1 alone.
FuzzyEnabledNoLower(threshold) == RatLess(threshold, One)

\* 0 < match_threshold < 1
FuzzyEnabled(threshold) == RatLess(Zero, threshold) /\ RatLess(threshold, One)

\* Variant of SimilarAbove: >= in place of >.
SimilarAtLeast(a, b, threshold) == ~RatLess(Ratio(a, b), threshold)

\* ProfanityFilter.similar(a, b) > match_threshold
SimilarAbove(a, b, threshold) == RatLess(threshold, Ratio(a, b))

\* Variant of Hit: the replace character once, not once per character of the word.
HitOnce(text, word, replace_character) ==
  IF replace_character # None /\ replace_character[1] # <<>>
  THEN RetStr(Replace(text, word, replace_character[1]))
  ELSE RetBool(TRUE)

\* The value returned on a matching word.
Hit(text, word, replace_character) ==
  IF replace_character # None /\ replace_character[1] # <<>>
  THEN RetStr(Replace(text, word, Repeat(replace_character[1], Len(word))))
  ELSE RetBool(TRUE)

RECURSIVE FilterLoop(_, _, _, _, _)
\* "for word in words" from the words left: the exact test, then, with a
\* threshold inside (0, 1), the scan of the corpus.
FilterLoop(corpus, text, words, threshold, replace_character) ==
  IF words = <<>> THEN RetBool(FALSE)
  ELSE LET word == Head(words)
       IN IF word \in corpus THEN Hit(text, word, replace_character)
          ELSE IF /\ FuzzyEnabled(threshold)
                  /\ \E bad_word \in corpus : SimilarAbove(word, bad_word, threshold)
               THEN Hit(text, word, replace_character)
               ELSE FilterLoop(corpus, text, Tail(words), threshold, replace_character)

\* The result of filter_text on a filter with configuration cfg and corpus.
FilterText(cfg, corpus, text, match_threshold, replace_character) ==
  LET processed_text == process_text(cfg, text)
      words == Split(processed_text)
  IN FilterLoop(corpus, text, words, EffectiveThreshold(match_threshold), replace_character)

\* Variant of filter_text: the words of a text that matched are remembered in
\* the corpus.
filter_text_caching(text, match_threshold, replace_character) ==
  /\ status = "ready"
  /\ call = NoCall
  /\ LET ret == FilterText(Config, Corpus, text, match_threshold, replace_character)
         words == Split(process_text(Config, text))
     IN /\ call' = [NoCall EXCEPT !.op = "filter_text", !.text = text,
                                  !.thr = match_threshold, !.rc = replace_character,
                                  !.ret = ret]
        /\ bad_words' = IF ret = RetBool(FALSE) THEN bad_words
                        ELSE Some(Corpus \cup {words[i] : i \in 1..Len(words)})
  /\ UNCHANGED <<status, text_processor, language_files, origin>>

\* ProfanityFilter.filter_text
filter_text(text, match_threshold, replace_character) ==
  /\ status = "ready"
  /\ call = NoCall
  /\ call' = [NoCall EXCEPT !.op = "filter_text", !.text = text, !.thr = match_threshold,
                            !.rc = replace_character,
                            !.ret = FilterText(Config, Corpus, text, match_threshold,
                                               replace_character)]
  /\ UNCHANGED <<status, text_processor, language_files, bad_words, origin>>

\* ProfanityFilter.get_all_languages
get_all_languages ==
  /\ status = "ready"
  /\ call = NoCall
  /\ call' = [NoCall EXCEPT !.op = "get_all_languages", !.ret = RetList(language_files[1])]
  /\ UNCHANGED <<status, text_processor, language_files, bad_words, origin>>

\* The caller takes the result of the call that returned; the calls are
\* synchronous, one at a time.
Return ==
  /\ status = "ready"
  /\ call # NoCall
  /\ call' = NoCall
  /\ UNCHANGED <<status, text_processor, language_files, bad_words, origin>>

\* ------------------------------------------------------------- the inputs

\* Every list of at most n of the codes.
LangLists(codes, n) == UNION {[1..k -> codes] : k \in 0..n}

\* The codes the directory yields, and one it does not.
Codes == {EN, RU, DE, FR, E1, DM, ZZ}

Thresholds == {None, Some(Zero), Some(<<-1, 2>>), Some(<<1, 2>>), Some(One)}

ReplaceChars == {None, Some(<<"*">>)}

\* The calls of one behaviour: the language lists and configurations given to
\* init, the word lists given to add_words, the texts given to filter_text.
Calls(languages, configs, wordlists, texts) ==
  \/ \E l \in languages, cfg \in configs : init(l, cfg)
  \/ \E words \in wordlists : add_words(words)
  \/ \E text \in texts, thr \in Thresholds, rc \in ReplaceChars : filter_text(text, thr, rc)
  \/ get_all_languages
  \/ Return

\* The raw words the behaviours add.
WordPool == {<<"b">>, <<"a">>, <<"a", " ", "b">>, <<"A", "a">>, <<"b", "a">>}

\* Every text against a few corpora.
Next ==
  Calls({None, Some(<<EN>>), Some(<<RU, ZZ>>)}, Configs,
        {<<w>> : w \in {<<"b">>, <<"a">>, <<>>}}, Str(MaxLen))

Spec == Init /\ [][Next]_vars

\* Every list of one or two words of the pool against the shorter texts.
NextGrow ==
  Calls({Some(<<EN>>), Some(<<ZZ>>)}, Configs,
        {<<w>> : w \in WordPool} \cup {<<w, v>> : w \in WordPool, v \in WordPool},
        Str(MaxLen - 1))

SpecGrow == Init /\ [][NextGrow]_vars

\* Every language list against a few calls.
NextLoad ==
  Calls({None} \cup {Some(l) : l \in LangLists(Codes, MaxLangs)}, Configs,
        {<<<<"a">>>>}, Str(1))

SpecLoad == Init /\ [][NextLoad]_vars

\* -------------------------------------------------------------- properties

\* The codes the resource directory yields.
KnownCodes == {EN, RU, DE, FR, E1, DM}

\* The languages whose word list can be read, and the lines of each.
Loadable == {EN, RU}

WordList(lang) ==
  IF lang = EN THEN {<<"A", "b">>, <<"a", " ", "b">>}
  ELSE IF lang = RU THEN {<<"b", "a">>, <<"b">>}
  ELSE {}

\* The elements of a list.
Elems(list) == {list[i] : i \in 1..Len(list)}

\* The lines of the word lists that load among the languages of the filter.
LoadedLines == UNION {WordList(lang) : lang \in Elems(language_files[1]) \cap Loadable}

\* The tokens filter_text tests for a text.
Tokens(text) == Split(process_text(Config, text))

\* A result that reports a match: true, or a redacted string.
Matched(ret) == ret.kind = "str" \/ (ret.kind = "bool" /\ ret.b)

\* The similarity ratio of a and b strictly exceeds the rational r.
RatioExceeds(a, b, r) ==
  IF Len(a) + Len(b) = 0 THEN r[1] < r[2]
  ELSE 2 * MatchCount(a, b, 1, Len(a), 1, Len(b)) * r[2] > r[1] * (Len(a) + Len(b))

\* The threshold is unset, 1, 0 or negative.
ExactMode(thr) == thr = None \/ thr[1][1] = thr[1][2] \/ thr[1][1] <= 0

\* The threshold lies strictly between 0 and 1.
FuzzyMode(thr) == thr # None /\ 0 < thr[1][1] /\ thr[1][1] < thr[1][2]

\* A token matches: it is in the corpus or, in fuzzy mode, some corpus entry
\* is more similar to it than the threshold.
TokenMatches(tok, thr) ==
  \/ tok \in Corpus
  \/ FuzzyMode(thr) /\ \E bw \in Corpus : RatioExceeds(tok, bw, thr[1])

FilterReturned == status = "ready" /\ call.op = "filter_text"

\* C1: init with a non-empty language list holding a code outside the
\* discovered set raises NotSupportedLanguage and leaves bad_words unbuilt:
\* nothing is loaded, not even for the valid codes of the list.
UnsupportedLanguageRaises ==
  (/\ call.op = "init"
   /\ Truthy(call.languages)
   /\ Elems(call.languages[1]) \ KnownCodes # {})
  => /\ status = "failed"
     /\ call.ret = RaiseNotSupportedLanguage
     /\ bad_words = None
     /\ origin = {}

\* init raised for a list that also names a language whose word list loads.
UnsupportedLanguageWitness ==
  /\ call.op = "init"
  /\ call.ret = RaiseNotSupportedLanguage
  /\ Truthy(call.languages)
  /\ Elems(call.languages[1]) \cap Loadable # {}
  /\ Elems(call.languages[1]) \ KnownCodes # {}

\* C2: a line of a loaded word list, given to filter_text with the default
\* threshold and no replace character, is reported as a match.
CorpusQuerySymmetry ==
  (/\ FilterReturned
   /\ call.thr = None
   /\ call.rc = None
   /\ call.text \in LoadedLines)
  => call.ret = RetBool(TRUE)

\* C3: in the state add_words([w]) returns in, filter_text(w) with the default
\* threshold and no replace character returns true.
AddedWordMatches ==
  (status = "ready" /\ call.op = "add_words" /\ Len(call.words) = 1)
  => FilterText(Config, Corpus, call.words[1], None, None) = RetBool(TRUE)

\* C4: after construction no step removes a word from the corpus, and a text
\* that matches at a threshold before a step matches at it after the step.
CorpusOnlyGrows ==
  [][status = "ready" =>
       /\ Corpus \subseteq Corpus'
       /\ (bad_words' # bad_words \/ text_processor' # text_processor) =>
            \A text \in Str(MaxLen - 1), thr \in Thresholds, rc \in ReplaceChars :
              Matched(FilterText(Config, Corpus, text, thr, rc))
                => Matched(FilterText(Config', Corpus', text, thr, rc))]_vars

\* add_words returned with a corpus that holds both a word it did not add and a
\* word no word list gave.
CorpusGrewWitness ==
  /\ status = "ready"
  /\ call.op = "add_words"
  /\ \E w \in Corpus : w \notin {process_text(Config, v) : v \in Elems(call.words)}
  /\ \E w \in Corpus : w \notin {process_text(Config, v) : v \in LoadedLines}

\* C5: with the threshold unset, 1, 0 or negative, filter_text reports a match
\* exactly when some token of the normalized text is in the corpus.
ExactOnlyMode ==
  (FilterReturned /\ ExactMode(call.thr))
  => (Matched(call.ret) <=> \E tok \in Elems(Tokens(call.text)) : tok \in Corpus)

\* With a negative threshold a text passed whose token is at least half
\* similar to a corpus entry.
ExactOnlyWitness ==
  /\ FilterReturned
  /\ call.thr = Some(<<-1, 2>>)
  /\ call.ret = RetBool(FALSE)
  /\ \E tok \in Elems(Tokens(call.text)), bw \in Corpus : RatioExceeds(tok, bw, <<1, 3>>)

\* C6: with 0 < threshold < 1, filter_text reports a match exactly when some
\* token is in the corpus or is more similar to some corpus entry than the
\* threshold; a ratio equal to the threshold is no match.
FuzzyModeStrict ==
  (FilterReturned /\ FuzzyMode(call.thr))
  => (Matched(call.ret) <=>
        \E tok \in Elems(Tokens(call.text)) :
          \/ tok \in Corpus
          \/ \E bw \in Corpus : RatioExceeds(tok, bw, call.thr[1]))

\* In fuzzy mode a text passed whose token has a ratio equal to the threshold
\* with a corpus entry, and no higher.
FuzzyBoundaryWitness ==
  /\ FilterReturned
  /\ FuzzyMode(call.thr)
  /\ call.ret = RetBool(FALSE)
  /\ \E tok \in Elems(Tokens(call.text)), bw \in Corpus :
       LET t == Len(tok) + Len(bw)
       IN 2 * MatchCount(tok, bw, 1, Len(tok), 1, Len(bw)) * call.thr[1][2] = call.thr[1][1] * t

\* Every character of out that differs from text lies in an occurrence of tok in text.
OnlyOccurrencesChanged(text, out, tok) ==
  /\ Len(out) = Len(text)
  /\ \A p \in 1..Len(text) :
       out[p] # text[p] =>
         \E q \in 1..p : p < q + Len(tok) /\ q + Len(tok) - 1 <= Len(text)
                         /\ SubSeq(text, q, q + Len(tok) - 1) = tok

ExpectedCorpus(cfg, langs) ==
  {process_text(cfg, line) : line \in UNION {WordList(lang) : lang \in Elems(langs) \cap Loadable}}

\* C8: init with no list, or with a list of discovered codes, returns without
\* raising whatever fails for single languages, and the corpus holds the words
\* of every language of the list whose word list loads.
LoadIsolation ==
  (/\ call.op = "init"
   /\ ~(Truthy(call.languages) /\ Elems(call.languages[1]) \ KnownCodes # {}))
  => /\ status = "ready"
     /\ call.ret = RetNone
     /\ Corpus = ExpectedCorpus(Config, language_files[1])

\* init returned for a list in which a language that fails to load stands
\* between two that load.
LoadIsolationWitness ==
  /\ call.op = "init"
  /\ status = "ready"
  /\ \E i, j, k \in 1..Len(language_files[1]) :
       /\ i < j /\ j < k
       /\ language_files[1][i] \in Loadable
       /\ language_files[1][j] \notin Loadable
       /\ language_files[1][k] \in Loadable
       /\ language_files[1][i] # language_files[1][k]
  /\ ExpectedCorpus(Config, language_files[1]) \subseteq Corpus

FilterTextReadOnly ==
  [][(status = "ready" /\ call'.op = "filter_text") =>
       /\ call'.ret.kind \in {"bool", "str"}
       /\ bad_words' = bad_words
       /\ language_files' = language_files
       /\ text_processor' = text_processor
       /\ status' = status
       /\ FilterText(Config', Corpus', call'.text, call'.thr, call'.rc) = call'.ret]_vars

\* filter_text returned a redacted string for a fuzzy match.
FilterTextWitness ==
  /\ FilterReturned
  /\ FuzzyMode(call.thr)
  /\ call.ret.kind = "str"
  /\ call.ret.s # call.text
  /\ \A tok \in Elems(Tokens(call.text)) : tok \notin Corpus

====
